---- MODULE Spec2Model ----
(***************************************************************************)
(* State-machine model of data_loader.py: the district loader, the         *)
(* ownership/graph builder and the distance pipeline (load, normalize,     *)
(* apply).  Every loader is a sequential scan of a csv reader; one action  *)
(* is one iteration of the loop it models.                                 *)
(***************************************************************************)
EXTENDS Integers, Sequences, FiniteSets, TLC

VARIABLES
    \* load_district_data
    district_rows,      \* rows the reader has yielded so far, as <<row[1], row[2]>>
    districts,          \* the set of District objects (output / later input)
    district_pc,        \* "scan" | "done" | "idle"
    \* load_dog_data
    dog_rows,           \* rows the reader has yielded so far
    users,              \* users: user id -> User
    dog_graph,          \* Graph: owner and breed vertices, owner/breed edges
    district_graph,     \* WeightedGraph: district and breed vertices, weights
    dog_pc,             \* "scan" | "done" | "KeyError" | "idle"
    \* get_raw_district_distances, normalize_district_distances, apply_district_distances
    raw_district_distances, \* origin id -> (destination id -> distance)
    loaded_distances,   \* the table as get_raw_district_distances returned it
    district_id,        \* row[0] of the distance row being read ("" between rows)
    district_distances, \* the current row's destination -> distance mapping
    rows_read,          \* number of distance rows the reader has yielded
    distances,          \* District.distances of every district, by id
    dist_pc             \* "rows" | "mappings" | "loaded" | "normalized" | "applied"
                        \* | "KeyError" | "ValueError" | "ZeroDivisionError"
                        \* | "AssertionError" | "idle"

vars == <<district_rows, districts, district_pc,
          dog_rows, users, dog_graph, district_graph, dog_pc,
          raw_district_distances, loaded_distances, district_id,
          district_distances, rows_read, distances, dist_pc>>

district_vars == <<district_rows, districts, district_pc>>
dog_vars == <<dog_rows, users, dog_graph, district_graph, dog_pc>>
dist_vars == <<raw_district_distances, loaded_distances, district_id,
               district_distances, rows_read, distances, dist_pc>>

\* ------------------------------------------------------------------ bounds
MaxDistrictRows == 3
MaxDogRows == 3
MaxDistanceRows == 2
MaxDistance == 2

\* ----------------------------------------------------------------- strings
\* A str is a sequence of one-character strings.
LowerAlphabet == <<"a","b","c","d","e","f","g","h","i","j","k","l","m",
                   "n","o","p","q","r","s","t","u","v","w","x","y","z">>
UpperAlphabet == <<"A","B","C","D","E","F","G","H","I","J","K","L","M",
                   "N","O","P","Q","R","S","T","U","V","W","X","Y","Z">>
Digits == <<"0","1","2","3","4","5","6","7","8","9">>
Whitespace == {" "}

ToUpper(c) ==
    IF \E i \in DOMAIN LowerAlphabet : LowerAlphabet[i] = c
    THEN UpperAlphabet[CHOOSE i \in DOMAIN LowerAlphabet : LowerAlphabet[i] = c]
    ELSE c

ToLower(c) ==
    IF \E i \in DOMAIN UpperAlphabet : UpperAlphabet[i] = c
    THEN LowerAlphabet[CHOOSE i \in DOMAIN UpperAlphabet : UpperAlphabet[i] = c]
    ELSE c

\* str.upper()
Upper(s) == [i \in DOMAIN s |-> ToUpper(s[i])]

\* str.capitalize(): first character upper-cased, every other one lower-cased
Capitalize(s) == [i \in DOMAIN s |-> IF i = 1 THEN ToUpper(s[i]) ELSE ToLower(s[i])]

\* str.strip()
Strip(s) ==
    LET keep == {i \in DOMAIN s : s[i] \notin Whitespace}
    IN  IF keep = {} THEN <<>>
        ELSE LET lo == CHOOSE i \in keep : \A j \in keep : i <= j
                 hi == CHOOSE i \in keep : \A j \in keep : j <= i
             IN  SubSeq(s, lo, hi)

\* `sub in s` for strings
Contains(s, sub) ==
    \E i \in 1..(Len(s) - Len(sub) + 1) : SubSeq(s, i, i + Len(sub) - 1) = sub

\* int(s) for a string of decimal digits
DigitValue(c) == (CHOOSE i \in DOMAIN Digits : Digits[i] = c) - 1

RECURSIVE ParseInt(_)
ParseInt(s) ==
    IF Len(s) = 0 THEN 0
    ELSE 10 * ParseInt(SubSeq(s, 1, Len(s) - 1)) + DigitValue(s[Len(s)])

\* s.split('-'), for a string holding one '-': <<before, after>>
SplitDash(s) ==
    LET k == CHOOSE i \in DOMAIN s : s[i] = "-" /\ \A j \in 1..(i - 1) : s[j] # "-"
    IN  <<SubSeq(s, 1, k - 1), SubSeq(s, k + 1, Len(s))>>

\* --------------------------------------------------------------- District
District(id, name) == [district_id |-> id, district_name |-> name]

\* District.__eq__ / __hash__: by id
DistrictEq(a, b) == a.district_id = b.district_id

\* set.add: an element equal to one already in the set is not inserted
SetAddReplacing(s, x) == {y \in s : ~DistrictEq(x, y)} \cup {x}

SetAdd(s, x) == IF \E y \in s : DistrictEq(x, y) THEN s ELSE s \cup {x}

\* {target.district_id: target for target in districts}
district_mapping ==
    [id \in {d.district_id : d \in districts} |->
        CHOOSE d \in districts : d.district_id = id]

Altstadt == <<"A","l","t","s","t","a","d","t">>
Seefeld == <<"S","e","e","f","e","l","d">>
Enge == <<"E","n","g","e">>

\* The district set the other loaders are given.
KnownDistricts == {District(10, Altstadt), District(20, Seefeld), District(30, Enge)}

\* ----------------------------------------------------- load_district_data
\* <<row[1], row[2]>> of a row such as ['261031', '31', 'Alt-Wiedikon', '261', '169']
DistrictRowInputs == {<<"1","0">>, <<"2","0">>} \X {Altstadt, Seefeld, Enge}

IdleDistricts ==
    /\ district_rows = <<>>
    /\ district_pc = "idle"

IdleDogs ==
    /\ dog_rows = <<>>
    /\ users = <<>>
    /\ dog_graph = [users |-> {}, breeds |-> {}, edges |-> {}]
    /\ district_graph = [districts |-> {}, breeds |-> {}, weight |-> <<>>]
    /\ dog_pc = "idle"

IdleDistances ==
    /\ raw_district_distances = <<>>
    /\ loaded_distances = <<>>
    /\ district_id = <<>>
    /\ district_distances = <<>>
    /\ rows_read = 0
    /\ distances = [id \in {d.district_id : d \in KnownDistricts} |-> <<>>]
    /\ dist_pc = "idle"

InitDistricts ==
    /\ district_rows = <<>>
    /\ districts = {}
    /\ district_pc = "scan"
    /\ IdleDogs
    /\ IdleDistances

\* for row in reader: districts.add(District(int(row[1]), row[2]))
ReadDistrictRow ==
    /\ district_pc = "scan"
    /\ Len(district_rows) < MaxDistrictRows
    /\ \E row \in DistrictRowInputs :
        /\ district_rows' = Append(district_rows, row)
        /\ districts' = SetAdd(districts, District(ParseInt(row[1]), row[2]))
    /\ UNCHANGED <<district_pc, dog_vars, dist_vars>>

\* the reader is exhausted: return districts
DistrictsEndOfFile ==
    /\ district_pc = "scan"
    /\ district_pc' = "done"
    /\ UNCHANGED <<district_rows, districts, dog_vars, dist_vars>>

NextDistricts == ReadDistrictRow \/ DistrictsEndOfFile

SpecDistricts == InitDistricts /\ [][NextDistricts]_vars

\* ---------------------------------------------------------- load_dog_data
\* the mixed-breed marker of line 68
Mischling == <<"M","i","s","c","h","l","i","n","g">>

\* User(user_id, age, gender, district)
User(user_id, age, gender, district) ==
    [user_id |-> user_id, age |-> age, gender |-> gender, district |-> district]

\* Graph(): vertices are User objects (one per user id) and breed names;
\* an edge joins a breed name and a user
EmptyGraph == [users |-> {}, breeds |-> {}, edges |-> {}]

\* Graph.add_vertex(user): no effect when the vertex is present
AddUserVertex(g, user) ==
    IF \E v \in g.users : v.user_id = user.user_id THEN g
    ELSE [g EXCEPT !.users = @ \cup {user}]

\* Graph.add_vertex(dog_breed)
AddBreedVertex(g, dog_breed) == [g EXCEPT !.breeds = @ \cup {dog_breed}]

\* Graph.add_edge(dog_breed, user): the edge set holds an edge once
AddEdge(g, dog_breed, user) == [g EXCEPT !.edges = @ \cup {<<dog_breed, user.user_id>>}]

\* WeightedGraph(): vertices are District objects (one per id) and breed names
EmptyWeightedGraph == [districts |-> {}, breeds |-> {}, weight |-> <<>>]

\* WeightedGraph.contains / add_vertex for a District
ContainsDistrict(g, district) == \E v \in g.districts : DistrictEq(v, district)

AddDistrictVertex(g, district) == [g EXCEPT !.districts = @ \cup {district}]

\* WeightedGraph.contains / add_vertex for a breed name
ContainsBreed(g, dog_breed) == dog_breed \in g.breeds

AddWeightedBreedVertex(g, dog_breed) == [g EXCEPT !.breeds = @ \cup {dog_breed}]

\* WeightedGraph.get_weight: 0 when there is no such edge
GetWeight(g, district, dog_breed) ==
    IF <<district.district_id, dog_breed>> \in DOMAIN g.weight
    THEN g.weight[<<district.district_id, dog_breed>>]
    ELSE 0

\* WeightedGraph.add_edge(district, dog_breed, weight)
AddWeightedEdge(g, district, dog_breed, weight) ==
    [g EXCEPT !.weight = (<<district.district_id, dog_breed>> :> weight) @@ @]

\* `not raw_age_range.strip()` / `not gender.strip()`
IsBlank(s) == Strip(s) = <<>>

\* 'Mischling' in dog_breed, dog_breed being row[5].capitalize()
IsMixedBreed(dog_breed) == Contains(dog_breed, Mischling)

\* the four `continue` statements of the loop body
Skipped(row) ==
    \/ IsBlank(row.age_range)
    \/ IsBlank(Upper(row.gender))
    \/ ParseInt(row.district_id) \notin DOMAIN district_mapping
    \/ IsMixedBreed(Capitalize(row.dog_breed))

\* (int(split_age_range[0]) + int(split_age_range[1])) // 2
Age(raw_age_range) ==
    (ParseInt(SplitDash(raw_age_range)[1]) + ParseInt(SplitDash(raw_age_range)[2])) \div 2

\* User(user_id, age, gender, district) as line 73 builds it from the row
RowUser(row) ==
    User(ParseInt(row.user_id), Age(row.age_range), Upper(row.gender),
         district_mapping[ParseInt(row.district_id)])

\* a guard that looks the user id up among the users created so far
CreatesUserUnlessKnown(user_id) == user_id \notin DOMAIN users

\* `if user_id not in district_mapping`
CreatesUser(user_id) == user_id \notin DOMAIN district_mapping

\* current_weight + 1
NextWeight(current_weight) == current_weight + 1

DogRow(user_id, age_range, gender, did, dog_breed) ==
    [user_id |-> user_id, age_range |-> age_range, gender |-> gender,
     district_id |-> did, dog_breed |-> dog_breed]

Age20to29 == <<"2","0","-","2","9">>
Age30to39 == <<"3","0","-","3","9">>
Pudel == <<"p","u","d","e","l">>
PudelUpper == <<"P","U","D","E","L">>
Mops == <<"m","o","p","s">>
MischlingKlein == <<"m","i","s","c","h","l","i","n","g"," ","k","l","e","i","n">>
MopsMischling == <<"M","o","p","s"," ","M","i","s","c","h","l","i","n","g">>

\* rows of the ownership table: (row[0], row[1], row[2], row[4], row[5])
DogRowInputs ==
    {DogRow(u, Age20to29, <<"f">>, d, b) :
        u \in {<<"1">>, <<"2">>, <<"1","0">>}, d \in {<<"1","0">>, <<"2","0">>},
        b \in {Pudel, Mops}}
    \cup {DogRow(<<"1">>, Age30to39, <<"M">>, <<"2","0">>, PudelUpper),
          DogRow(<<"1">>, <<" ">>, <<"f">>, <<"1","0">>, Pudel),
          DogRow(<<"2">>, Age20to29, <<>>, <<"1","0">>, Pudel),
          DogRow(<<"1">>, Age20to29, <<"f">>, <<"9","9">>, Pudel),
          DogRow(<<"2">>, Age20to29, <<"f">>, <<"1","0">>, MischlingKlein),
          DogRow(<<"2">>, Age20to29, <<"f">>, <<"1","0">>, MopsMischling)}

InitDogs ==
    /\ dog_rows = <<>>
    /\ users = <<>>
    /\ dog_graph = EmptyGraph
    /\ district_graph = EmptyWeightedGraph
    /\ dog_pc = "scan"
    /\ districts = KnownDistricts
    /\ IdleDistricts
    /\ IdleDistances

\* one iteration of `for row in reader` (lines 55-84)
ReadDogRow ==
    /\ dog_pc = "scan"
    /\ Len(dog_rows) < MaxDogRows
    /\ \E row \in DogRowInputs :
        /\ dog_rows' = Append(dog_rows, row)
        /\ IF Skipped(row)
           THEN UNCHANGED <<users, dog_graph, district_graph, dog_pc>>
           ELSE LET user_id == ParseInt(row.user_id)
                    dog_breed == Capitalize(row.dog_breed)
                    users1 == IF CreatesUser(user_id)
                              THEN (user_id :> RowUser(row)) @@ users
                              ELSE users
                    graph1 == IF CreatesUser(user_id)
                              THEN AddUserVertex(dog_graph, users1[user_id])
                              ELSE dog_graph
                IN  IF user_id \notin DOMAIN users1
                    THEN \* user = users[user_id] raises KeyError
                         /\ dog_pc' = "KeyError"
                         /\ UNCHANGED <<users, dog_graph, district_graph>>
                    ELSE LET user == users1[user_id]
                             wg1 == IF ContainsDistrict(district_graph, user.district)
                                    THEN district_graph
                                    ELSE AddDistrictVertex(district_graph, user.district)
                             wg2 == IF ContainsBreed(wg1, dog_breed)
                                    THEN wg1
                                    ELSE AddWeightedBreedVertex(wg1, dog_breed)
                             current_weight == GetWeight(wg2, user.district, dog_breed)
                         IN  /\ users' = users1
                             /\ dog_graph' =
                                  AddEdge(AddBreedVertex(graph1, dog_breed), dog_breed, user)
                             /\ district_graph' =
                                  AddWeightedEdge(wg2, user.district, dog_breed,
                                                  NextWeight(current_weight))
                             /\ UNCHANGED dog_pc
    /\ UNCHANGED <<districts, district_rows, district_pc, dist_vars>>

\* the reader is exhausted: return dog_graph, district_graph
DogsEndOfFile ==
    /\ dog_pc = "scan"
    /\ dog_pc' = "done"
    /\ UNCHANGED <<dog_rows, users, dog_graph, district_graph,
                   districts, district_rows, district_pc, dist_vars>>

NextDogs == ReadDogRow \/ DogsEndOfFile

SpecDogs == InitDogs /\ [][NextDogs]_vars

\* ------------------------------------------- get_raw_district_distances
\* district_lookup = {target.district_id: target for target in districts}
district_lookup == district_mapping

\* a float, kept exact as a fraction num/den
Float(num, den) == [num |-> num, den |-> den]

\* float(mapping_split[1]) of a whole number of kilometres
ParseFloat(s) == Float(ParseInt(s), 1)

\* truth value of a District object (`not origin`, `not destination`): an object
\* without __bool__ or __len__ is true
IsTrue(district) == TRUE

\* a guard that forgets the comparison with the origin
SkipsFalsyDestination(destination, origin) == ~IsTrue(destination)

\* `if not destination or destination == origin: continue`
SkipsDestination(destination, origin) ==
    ~IsTrue(destination) \/ DistrictEq(destination, origin)

\* row[0] of a distance row
OriginInputs == {<<"1","0">>, <<"2","0">>, <<"3","0">>, <<"9","9">>}

\* one "destId:km" entry of row[1], split at ':'
MappingInputs == OriginInputs \X {<<Digits[km + 1]>> : km \in 0..MaxDistance}

InitDistances ==
    /\ raw_district_distances = <<>>
    /\ loaded_distances = <<>>
    /\ district_id = <<>>
    /\ district_distances = <<>>
    /\ rows_read = 0
    /\ distances = [id \in {d.district_id : d \in KnownDistricts} |-> <<>>]
    /\ dist_pc = "rows"
    /\ districts = KnownDistricts
    /\ IdleDistricts
    /\ IdleDogs

\* `for row in reader` up to the inner loop (lines 118-124)
BeginDistanceRow ==
    /\ dist_pc = "rows"
    /\ rows_read < MaxDistanceRows
    /\ rows_read' = rows_read + 1
    /\ \E id \in OriginInputs :
        /\ district_id' = id
        /\ IF ParseInt(id) \notin DOMAIN district_lookup
           THEN \* district_lookup[int(district_id)] raises KeyError
                dist_pc' = "KeyError"
           ELSE IF ~IsTrue(district_lookup[ParseInt(id)])
           THEN dist_pc' = "rows"
           ELSE dist_pc' = "mappings"
    /\ UNCHANGED <<raw_district_distances, loaded_distances, district_distances,
                   distances, districts, district_vars, dog_vars>>

\* one iteration of `for mapping in district_mapping_raw` (lines 125-131)
ReadMapping ==
    /\ dist_pc = "mappings"
    /\ \E mapping_split \in MappingInputs :
        LET origin == district_lookup[ParseInt(district_id)]
            destination_id == ParseInt(mapping_split[1])
            distance == ParseFloat(mapping_split[2])
        IN  IF destination_id \notin DOMAIN district_lookup
            THEN \* district_lookup[destination_id] raises KeyError
                 /\ dist_pc' = "KeyError"
                 /\ UNCHANGED district_distances
            ELSE /\ dist_pc' = "mappings"
                 /\ IF SkipsDestination(district_lookup[destination_id], origin)
                    THEN UNCHANGED district_distances
                    ELSE district_distances' =
                             (destination_id :> distance) @@ district_distances
    /\ UNCHANGED <<raw_district_distances, loaded_distances, district_id, rows_read,
                   distances, districts, district_vars, dog_vars>>

\* the inner loop is over: raw_district_distances[origin] = district_distances.
\* row[1].split('|') yields at least one entry; a row whose entries were all
\* skipped reaches this line with the mapping still empty.
EndDistanceRow ==
    /\ dist_pc = "mappings"
    /\ raw_district_distances' =
         (ParseInt(district_id) :> district_distances) @@ raw_district_distances
    /\ district_id' = <<>>
    /\ district_distances' = <<>>
    /\ dist_pc' = "rows"
    /\ UNCHANGED <<loaded_distances, rows_read, distances, districts,
                   district_vars, dog_vars>>

\* the reader is exhausted: return raw_district_distances
DistancesEndOfFile ==
    /\ dist_pc = "rows"
    /\ dist_pc' = "loaded"
    /\ loaded_distances' = raw_district_distances
    /\ UNCHANGED <<raw_district_distances, district_id, district_distances,
                   rows_read, distances, districts, district_vars, dog_vars>>

\* ----------------------------------------- normalize_district_distances
\* the (origin, destination) pairs of a table
Pairs(table) == UNION {{<<o, d>> : d \in DOMAIN table[o]} : o \in DOMAIN table}

\* min_distance after the first loop (math.inf on a table without pairs is never read)
MinDistance(table) ==
    LET ps == Pairs(table)
        p == CHOOSE q \in ps : \A r \in ps : table[q[1]][q[2]].num <= table[r[1]][r[2]].num
    IN  table[p[1]][p[2]].num

\* max_distance after the first loop, which starts from 0
MaxDistanceOf(table) ==
    LET ps == Pairs(table)
    IN  IF \A q \in ps : table[q[1]][q[2]].num <= 0 THEN 0
        ELSE LET p == CHOOSE q \in ps :
                        \A r \in ps : table[r[1]][r[2]].num <= table[q[1]][q[2]].num
             IN  table[p[1]][p[2]].num

\* a guard that only catches a negative maximum
IsNegative(max_distance) == max_distance < 0

\* `if max_distance == 0: raise ValueError`
IsDegenerate(max_distance) == max_distance = 0

\* distance -= min_distance; distance /= difference; distance = 1 - distance
Normalized(distance, min_distance, difference) ==
    Float(difference - (distance.num - min_distance), difference)

\* 0.0 <= distance <= 1.0
InUnitInterval(distance) ==
    /\ distance.den > 0
    /\ 0 <= distance.num
    /\ distance.num <= distance.den

NormalizedTable(table) ==
    LET min_distance == MinDistance(table)
        difference == MaxDistanceOf(table) - min_distance
    IN  [o \in DOMAIN table |->
            [d \in DOMAIN table[o] |-> Normalized(table[o][d], min_distance, difference)]]

\* normalize_district_distances(raw_district_distances), lines 141-159
Normalize ==
    /\ dist_pc = "loaded"
    /\ LET table == raw_district_distances
       IN  IF \E p \in Pairs(table) : p[1] = p[2]
           THEN \* assert origin != destination
                dist_pc' = "AssertionError" /\ UNCHANGED raw_district_distances
           ELSE IF IsDegenerate(MaxDistanceOf(table))
           THEN dist_pc' = "ValueError" /\ UNCHANGED raw_district_distances
           ELSE IF Pairs(table) = {}
           THEN \* the second loop has nothing to do
                dist_pc' = "normalized" /\ UNCHANGED raw_district_distances
           ELSE IF MaxDistanceOf(table) - MinDistance(table) = 0
           THEN \* distance /= difference raises on the first pair, before any store
                dist_pc' = "ZeroDivisionError" /\ UNCHANGED raw_district_distances
           ELSE \* min <= distance <= max, so the assert of line 159 holds
                /\ dist_pc' = "normalized"
                /\ raw_district_distances' = NormalizedTable(table)
    /\ UNCHANGED <<loaded_distances, district_id, district_distances, rows_read,
                   distances, districts, district_vars, dog_vars>>

\* --------------------------------------------- apply_district_distances
\* origin.set_distance(destination, value) for every pair of the table
Apply ==
    /\ dist_pc = "normalized"
    /\ LET table == raw_district_distances
       IN  IF \E p \in Pairs(table) : p[1] = p[2]
           THEN \* assert origin != destination
                dist_pc' = "AssertionError" /\ UNCHANGED distances
           ELSE /\ dist_pc' = "applied"
                /\ distances' =
                     [id \in DOMAIN distances |->
                        IF id \in DOMAIN table THEN table[id] @@ distances[id]
                        ELSE distances[id]]
    /\ UNCHANGED <<raw_district_distances, loaded_distances, district_id,
                   district_distances, rows_read, districts, district_vars, dog_vars>>

NextDistances ==
    \/ BeginDistanceRow
    \/ ReadMapping
    \/ EndDistanceRow
    \/ DistancesEndOfFile
    \/ Normalize
    \/ Apply

SpecDistances == InitDistances /\ [][NextDistances]_vars

\* ------------------------------------------------- load_district_data: C7
RowsWithId(id) == {k \in DOMAIN district_rows : ParseInt(district_rows[k][1]) = id}

FirstRowWithId(id) == CHOOSE k \in RowsWithId(id) : \A j \in RowsWithId(id) : k <= j

LastRowWithId(id) == CHOOSE k \in RowsWithId(id) : \A j \in RowsWithId(id) : j <= k

ParsedDistrictIds == {ParseInt(district_rows[k][1]) : k \in DOMAIN district_rows}

\* C7 (as amended): when the district table repeats a district id, the returned set
\* holds exactly one District for that id and its name is the name of the FIRST
\* parsed row with that id.
C7_FirstParsedNameWins ==
    district_pc = "done" =>
        \A id \in ParsedDistrictIds :
            /\ Cardinality({d \in districts : d.district_id = id}) = 1
            /\ \A d \in districts :
                 d.district_id = id => d.district_name = district_rows[FirstRowWithId(id)][2]

\* C7 (as stated): ... its name is the name of the LAST parsed row with that id.
C7_LastParsedNameWins ==
    district_pc = "done" =>
        \A id \in ParsedDistrictIds :
            /\ Cardinality({d \in districts : d.district_id = id}) = 1
            /\ \A d \in districts :
                 d.district_id = id => d.district_name = district_rows[LastRowWithId(id)][2]

\* a finished load of a table that repeats an id under two different names
C7_Witness ==
    /\ district_pc = "done"
    /\ \E id \in ParsedDistrictIds :
        /\ Cardinality(RowsWithId(id)) >= 2
        /\ district_rows[FirstRowWithId(id)][2] # district_rows[LastRowWithId(id)][2]

\* ---------------------------------------------- load_dog_data: C2 C3 C4 C9
\* the marker occurs in the breed name as written or as capitalized
HasMarker(row) ==
    \/ Contains(row.dog_breed, Mischling)
    \/ Contains(Capitalize(row.dog_breed), Mischling)

\* a skip condition as the specification words it
MeetsSkipCondition(row) ==
    \/ IsBlank(row.age_range)
    \/ IsBlank(row.gender)
    \/ ParseInt(row.district_id) \notin DOMAIN district_mapping
    \/ HasMarker(row)

BreedNames == {Capitalize(r.dog_breed) : r \in DogRowInputs}

RowsOf(did, dog_breed) ==
    {k \in DOMAIN dog_rows :
        /\ ParseInt(dog_rows[k].district_id) = did
        /\ Capitalize(dog_rows[k].dog_breed) = dog_breed}

C3_OwnerBreedEdge ==
    \A k \in DOMAIN dog_rows :
        ~MeetsSkipCondition(dog_rows[k]) =>
            LET uid == ParseInt(dog_rows[k].user_id)
                b == Capitalize(dog_rows[k].dog_breed)
            IN  /\ \E v \in dog_graph.users : v.user_id = uid
                /\ b \in dog_graph.breeds
                /\ Cardinality({e \in dog_graph.edges : e[1] = b /\ e[2] = uid}) = 1

\* C4: a row that meets a skip condition raises no error and leaves both graphs as
\* they were before the row.
C4_SkippedRowChangesNothing ==
    [][(dog_rows' # dog_rows /\ MeetsSkipCondition(dog_rows'[Len(dog_rows')])) =>
          /\ dog_graph' = dog_graph
          /\ district_graph' = district_graph
          /\ dog_pc' = "scan"]_vars

UnskippedRowsOfUser(uid) ==
    {k \in DOMAIN dog_rows :
        ~Skipped(dog_rows[k]) /\ ParseInt(dog_rows[k].user_id) = uid}

FirstUnskippedRowOfUser(uid) ==
    CHOOSE k \in UnskippedRowsOfUser(uid) : \A j \in UnskippedRowsOfUser(uid) : k <= j

\* C9: the User record of a user id is the one created on the first unskipped row
\* with that id; later rows with the id reuse it (its age, gender and district).
\* This holds for every user id, one equal to a district id included.
C9_UserCreatedOnce ==
    \A k \in DOMAIN dog_rows :
        ~Skipped(dog_rows[k]) =>
            LET uid == ParseInt(dog_rows[k].user_id)
            IN  /\ uid \in DOMAIN users
                /\ users[uid] = RowUser(dog_rows[FirstUnskippedRowOfUser(uid)])

\* --------------------------------------- distance pipeline: C1 C5 C6 C8 C10
\* normalize_district_distances has returned or raised
NormalizeEnded ==
    dist_pc \in {"normalized", "applied", "ValueError", "ZeroDivisionError",
                 "AssertionError"}

NormalizeReturned == dist_pc \in {"normalized", "applied"}

ValueAt(table, p) == table[p[1]][p[2]]

IsGlobalMin(table, p) ==
    \A q \in Pairs(table) : ValueAt(table, p).num <= ValueAt(table, q).num

IsGlobalMax(table, p) ==
    \A q \in Pairs(table) : ValueAt(table, q).num <= ValueAt(table, p).num

AllZero(table) == \A p \in Pairs(table) : ValueAt(table, p).num = 0

\* C1: for every table with at least one pair (and not all distances zero, the
\* case of C6) normalization ends with every stored value in [0,1], every pair of
\* globally minimum raw distance at exactly 1 and every pair of globally maximum
\* raw distance at exactly 0.
C1_NormalizedRange ==
    (NormalizeEnded /\ Pairs(loaded_distances) # {} /\ ~AllZero(loaded_distances)) =>
        /\ NormalizeReturned
        /\ \A p \in Pairs(raw_district_distances) :
             InUnitInterval(ValueAt(raw_district_distances, p))
        /\ \A p \in Pairs(loaded_distances) :
             /\ IsGlobalMin(loaded_distances, p) =>
                  ValueAt(raw_district_distances, p).num
                     = ValueAt(raw_district_distances, p).den
             /\ IsGlobalMax(loaded_distances, p) =>
                  ValueAt(raw_district_distances, p).num = 0

\* C5: an origin id or a destination id that is not in the district lookup is
\* skipped silently: the load does not raise and goes on, and the table holds
\* known districts only, none of them as its own destination.
C5_UnknownIdsSkipped ==
    /\ dist_pc # "KeyError"
    /\ \A p \in Pairs(raw_district_distances) :
         /\ p[1] \in DOMAIN district_lookup
         /\ p[2] \in DOMAIN district_lookup
         /\ p[1] # p[2]

\* C6: whenever the maximum raw distance is 0 (all distances zero, or no pair at
\* all) normalization raises ValueError, neither dividing by zero nor returning,
\* and on that error the table is as it was loaded.
C6_DegenerateRaises ==
    NormalizeEnded =>
        /\ AllZero(loaded_distances) =>
             dist_pc = "ValueError" /\ raw_district_distances = loaded_distances
        /\ dist_pc = "ValueError" => raw_district_distances = loaded_distances

\* the error was raised on a table of several pairs, all of distance zero
C6_Witness ==
    /\ dist_pc = "ValueError"
    /\ Cardinality(Pairs(loaded_distances)) >= 2
    /\ AllZero(loaded_distances)

\* C8: no self-pair exists anywhere in the pipeline: not in the mapping of the row
\* being read, not in the table built or returned, so that no `origin !=
\* destination` assertion fails, and after apply no District's distance mapping
\* has the District itself as a key.
C8_NoSelfPair ==
    /\ dist_pc = "mappings" => ParseInt(district_id) \notin DOMAIN district_distances
    /\ \A p \in Pairs(raw_district_distances) : p[1] # p[2]
    /\ \A p \in Pairs(loaded_distances) : p[1] # p[2]
    /\ dist_pc # "AssertionError"
    /\ \A id \in DOMAIN distances : id \notin DOMAIN distances[id]

\* distances were applied to two districts, one of them with two destinations
C8_Witness ==
    /\ dist_pc = "applied"
    /\ Cardinality({id \in DOMAIN distances : distances[id] # <<>>}) >= 2
    /\ \E id \in DOMAIN distances : Cardinality(DOMAIN distances[id]) >= 2

\* C10: the degenerate-dataset error is the only error of normalization: for every
\* table with a strictly positive distance (a single pair and all-equal distances
\* included) it returns, keeps the (origin, destination) keys and leaves every
\* value in [0,1].
C10_OnlyDegenerateError ==
    (NormalizeEnded /\ \E p \in Pairs(loaded_distances) :
                          ValueAt(loaded_distances, p).num > 0) =>
        /\ NormalizeReturned
        /\ Pairs(raw_district_distances) = Pairs(loaded_distances)
        /\ \A p \in Pairs(raw_district_distances) :
             InUnitInterval(ValueAt(raw_district_distances, p))

====
